---- MODULE Spec2Model ----
(***************************************************************************)
(* The middleware invocation engine of mappersmith's ClientBuilder         *)
(* (src/src/client-builder.js): the generated resource method, the         *)
(* request-phase promise chain, the response-phase continuation chain      *)
(* wrapped around the Gateway call, and the final resolve / reject.        *)
(*                                                                         *)
(* A Request is the sequence of header entries that request hooks added    *)
(* with enhance(); a settled value is a record [t, v, by, request].        *)
(* Every JavaScript callback (a promise reaction, a hook body up to its    *)
(* call of next()) is one action.                                          *)
(***************************************************************************)
EXTENDS Integers, Sequences, FiniteSets, TLC

\* ---------------------------------------------------------------- bounds
MaxMiddleware == 2      \* longest manifest.middleware list under Spec
ConcMiddleware == 1     \* longest manifest.middleware list under SpecConc, SpecLive
MaxSetContext == 2      \* setContext calls made under SpecCtx
MaxNextCalls == 2       \* k: the most often a hook calls next() within one stack run

\* configs.maxMiddlewareStackExecutionAllowed, @default 2
maxMiddlewareStackExecutionAllowed == 2

VARIABLES
    manifest,   \* the argument of forge
    GatewayClassFactory, \* what () => configs.gateway returns, or no factory
    client,     \* what forge(manifest) returned or threw, once called
    mw,         \* manifest.middleware: which hooks each middleware defines
    callers,    \* the generated-method calls the caller makes
    recalls,    \* per call: the further calls of next() its hooks still make
    token,      \* state a middleware keeps outside the Request (test: let token)
    pc,         \* per call: position of the call's promise chain
    runs,       \* per call: number of invokeMiddlewares executions started
    idx,        \* per call: position of the request-phase reduce
    req,        \* per call: value of the request promise
    cont,       \* per call: the continuation next() would run now
    stack,      \* per call: response hooks that called next() and await it
    outcome,    \* per call: the value that is travelling through the chain
    result,     \* per call: how the promise of the generated method settled
    events,     \* per call: what ran, in order
    context,    \* configs.context
    ctxLog      \* the arguments of the setContext calls made, in order

vars == <<manifest, GatewayClassFactory, client, mw, callers, recalls, token, pc, runs, idx, req,
          cont, stack, outcome, result, events, context, ctxLog>>

\* Two external calls: one is made under Spec, both under SpecConc.
Calls == {1, 2}

\* ---------------------------------------------------------------- values
\* new Request(method.descriptor, requestParams): no header added yet
initialRequest == <<>>

\* request.enhance({ headers }): a new Request with one more entry
enhance(request, i, tok) == Append(request, [mw |-> i, token |-> tok])

Val(t, v, by, request) == [t |-> t, v |-> v, by |-> by, request |-> request]
NoVal == Val("none", "", 0, <<>>)
\* One entry of a call's record of what ran: hook or step e of middleware i
\* (0: the executor or the Gateway), the Request involved, the hook's behaviour.
\* a: what the callee was handed besides the Request; at: the number of
\* setContext calls made before (kept for the entries a claim needs it for).
Ev(e, i, r, b) == [e |-> e, i |-> i, r |-> r, b |-> b, a |-> <<>>, at |-> 0]
EvArgs(e, i, r, b, a) == [e |-> e, i |-> i, r |-> r, b |-> b, a |-> a, at |-> 0]
EvAt(e, i, r, b, a) ==
    [e |-> e, i |-> i, r |-> r, b |-> b, a |-> a, at |-> Len(ctxLog)]

\* configs.context: a mapping from keys to values, "none" for an absent key.
CtxKeys == {"foo", "qux"}
CtxValues == {"bar", "baz"}
EmptyContext == [k \in CtxKeys |-> "none"]

\* The objects the caller passes to setContext.
Partials ==
    {[k \in {"foo"} |-> "bar"], [k \in {"foo"} |-> "baz"], [k \in {"qux"} |-> "bar"]}

\* assign(target, source): the keys of source added to or overwritten in
\* target, the other keys of target kept.
assign(target, source) ==
    [k \in CtxKeys |-> IF k \in DOMAIN source THEN source[k] ELSE target[k]]

\* The middleware lists of at most n middleware, each defining any of the
\* two hooks.
Hooks == [request : BOOLEAN, response : BOOLEAN]
Shapes(n) == UNION {[1..k -> Hooks] : k \in 0..n}

\* manifest.createMiddleware: an absent hook is the pass-through default.
\* What a request hook may do when called: return a Request, return a
\* promise of one, or throw.
RequestBehaviours(m) ==
    IF m.request THEN {"sync", "async", "throw"} ELSE {"default"}

\* What a response hook may do when called: return next(); resolve a value of
\* its own; throw; return renew(); next().then(r => renew());
\* next().catch(e => own response).
ResponseBehaviours(m) ==
    IF m.response
    THEN {"next", "resolve", "throw", "renew", "renewAfter", "catch"}
    ELSE {"default"}

\* ---------------------------------------------------------------- response chain
\* callGateway is the innermost continuation: nothing left to enter.
callGateway == <<>>

\* The composition with each middleware wrapped inside the ones before it.
chainResponsePhaseInside(next, i) == next \o <<i>>

\* (next, middleware) => () => middleware.response(next)
chainResponsePhase(next, i) == <<i>> \o next

\* middleware.reduce(chainResponsePhase, callGateway)
RECURSIVE reduce(_, _, _)
reduce(acc, k, n) ==
    IF k > n THEN acc ELSE reduce(chainResponsePhase(acc, k), k + 1, n)

execute(n) == reduce(callGateway, 1, n)

\* The Gateway constructed with the Request the call started from.
finalRequestInitial(c) == initialRequest

\* finalRequest: the value the request-phase promise resolved with
finalRequest(c) == req[c]

\* ---------------------------------------------------------------- construction
\* The manifests forge is called with: two falsy values and a manifest
\* definition. The Gateway factories: none, one that returns a falsy class
\* (configs.gateway not set), one that returns a Gateway class.
Manifests == {"undefined", "null", "valid"}
Factories == {"absent", "returnsNull", "returnsClass"}
NoClient == [t |-> "none", v |-> "", of |-> ""]
Thrown(v, of) == [t |-> "throw", v |-> v, of |-> of]

\* The constructor with its two checks in the other order.
ClientBuilderGatewayFirst(m, g) ==
    IF g # "returnsClass"
    THEN Thrown("gateway class not configured (configs.gateway)", "")
    ELSE IF m # "valid"
         THEN Thrown("invalid manifest", m)
         ELSE [t |-> "ok", v |-> "client", of |-> ""]

\* function ClientBuilder (manifest, GatewayClassFactory, configs), and build()
\* when the constructor returned.
ClientBuilder(m, g) ==
    IF m # "valid"
    THEN Thrown("invalid manifest", m)
    ELSE IF g = "absent" \/ g = "returnsNull"
         THEN Thrown("gateway class not configured (configs.gateway)", "")
         ELSE [t |-> "ok", v |-> "client", of |-> ""]

\* ---------------------------------------------------------------- initial state
\* No generated method called yet.
InitCalls(made) ==
    /\ client = NoClient
    /\ callers = made
    /\ token = 0
    /\ pc = [c \in Calls |-> "idle"]
    /\ runs = [c \in Calls |-> 0]
    /\ idx = [c \in Calls |-> 0]
    /\ req = [c \in Calls |-> initialRequest]
    /\ cont = [c \in Calls |-> <<>>]
    /\ stack = [c \in Calls |-> <<>>]
    /\ outcome = [c \in Calls |-> NoVal]
    /\ result = [c \in Calls |-> NoVal]
    /\ events = [c \in Calls |-> <<>>]
    /\ context = EmptyContext
    /\ ctxLog = <<>>

\* A manifest definition with at most len middleware and a configured Gateway.
InitWith(made, len) ==
    /\ manifest = "valid"
    /\ GatewayClassFactory = "returnsClass"
    /\ mw \in Shapes(len)
    /\ recalls = [c \in Calls |-> 0]
    /\ InitCalls(made)

\* Hooks that call next() again once next() has given them a Response.
InitNext ==
    /\ manifest = "valid"
    /\ GatewayClassFactory = "returnsClass"
    /\ mw \in Shapes(MaxMiddleware)
    /\ recalls = [c \in Calls |-> MaxNextCalls - 1]
    /\ InitCalls({1})

\* As InitNext, with the shorter middleware lists.
InitLive ==
    /\ manifest = "valid"
    /\ GatewayClassFactory = "returnsClass"
    /\ mw \in Shapes(ConcMiddleware)
    /\ recalls = [c \in Calls |-> MaxNextCalls - 1]
    /\ InitCalls({1})

\* Any manifest and any Gateway factory.
InitBuild ==
    /\ manifest \in Manifests
    /\ GatewayClassFactory \in Factories
    /\ mw \in (IF manifest = "valid" THEN Shapes(MaxMiddleware) ELSE {<<>>})
    /\ recalls = [c \in Calls |-> 0]
    /\ InitCalls({1})

Init == InitWith({1}, MaxMiddleware)
InitConc == InitWith(Calls, ConcMiddleware)

\* Two calls on a client whose one middleware has both hooks.
InitCtx ==
    /\ InitWith(Calls, ConcMiddleware)
    /\ mw = <<[request |-> TRUE, response |-> TRUE]>>

\* ---------------------------------------------------------------- actions
\* export default function forge (manifest)
Forge ==
    /\ client = NoClient
    /\ client' = ClientBuilder(manifest, GatewayClassFactory)
    /\ UNCHANGED <<manifest, GatewayClassFactory, mw, callers, recalls, token, pc, runs,
                   idx, req, cont, stack, outcome, result, events, context, ctxLog>>

\* One execution count kept on the builder and shared by every call.
countRunShared(c) == [d \in Calls |-> runs[d] + 1]

\* this.manifest.createMiddleware({ resourceName, resourceMethod }): the
\* arguments of the middleware factories, the context as it is now among them.
middlewareContext == <<context>>

\* The execution count of call c after invokeMiddlewares is entered for it.
countRun(c) == [runs EXCEPT ![c] = @ + 1]

\* The generated method: new Request, then invokeMiddlewares up to the
\* construction of the request-phase promise chain.
Invoke(c) ==
    /\ client.t = "ok"
    /\ c \in callers
    /\ pc[c] = "idle"
    /\ runs' = countRun(c)
    /\ pc' = [pc EXCEPT ![c] = "request"]
    /\ idx' = [idx EXCEPT ![c] = 1]
    /\ req' = [req EXCEPT ![c] = initialRequest]
    /\ events' = [events EXCEPT ![c] = Append(@, EvAt("invoke", 0, initialRequest, "", middlewareContext))]
    /\ UNCHANGED <<mw, callers, recalls, manifest, GatewayClassFactory, client, context, ctxLog, token, cont, stack, outcome, result>>

\* Every request hook called with the Request the call started from.
requestArgInitial(c) == initialRequest

\* The Request the i-th request hook of call c is called with.
requestArg(c) == req[c]

\* A failed link that lets the chain go on with the Request it had.
requestFailedContinues(c, i) ==
    /\ pc' = [pc EXCEPT ![c] = "request"]
    /\ idx' = [idx EXCEPT ![c] = i + 1]
    /\ UNCHANGED <<req, outcome>>

\* The request-phase chain skips every later link once a link has failed.
requestFailed(c, i) ==
    /\ pc' = [pc EXCEPT ![c] = "unwind"]
    /\ outcome' = [outcome EXCEPT ![c] = Val("rej", "HookError", i, <<>>)]
    /\ UNCHANGED <<req, idx>>

\* One link of the request phase:
\* requestPromise.then(request => middleware.request(request))
chainRequestPhase(c, b) ==
    LET i == idx[c]
        r == requestArg(c)
    IN  CASE b = "default" ->
               /\ events' = [events EXCEPT ![c] =
                     @ \o <<Ev("request", i, r, b), Ev("settled", i, r, b)>>]
               /\ req' = [req EXCEPT ![c] = r]
               /\ idx' = [idx EXCEPT ![c] = i + 1]
               /\ UNCHANGED <<pc, outcome>>
          [] b = "sync" ->
               /\ events' = [events EXCEPT ![c] =
                     @ \o <<Ev("request", i, r, b), Ev("settled", i, enhance(r, i, token), b)>>]
               /\ req' = [req EXCEPT ![c] = enhance(r, i, token)]
               /\ idx' = [idx EXCEPT ![c] = i + 1]
               /\ UNCHANGED <<pc, outcome>>
          [] b = "async" ->
               /\ events' = [events EXCEPT ![c] = Append(@, Ev("request", i, r, b))]
               /\ pc' = [pc EXCEPT ![c] = "awaitRequest"]
               /\ outcome' = [outcome EXCEPT ![c] =
                     Val("pending", "Request", i, enhance(r, i, token))]
               /\ UNCHANGED <<req, idx>>
          [] b = "throw" ->
               /\ events' = [events EXCEPT ![c] =
                     @ \o <<Ev("request", i, r, b), Ev("failed", i, r, b)>>]
               /\ requestFailed(c, i)

RequestHook(c) ==
    /\ pc[c] = "request"
    /\ idx[c] <= Len(mw)
    /\ \E b \in RequestBehaviours(mw[idx[c]]) : chainRequestPhase(c, b)
    /\ UNCHANGED <<mw, callers, recalls, manifest, GatewayClassFactory, client, context, ctxLog, token, runs, cont, stack, result>>

\* The promise an async request hook returned settles:
\* .then(request => this.Promise.resolve(request))
RequestSettle(c) ==
    /\ pc[c] = "awaitRequest"
    /\ \/ /\ req' = [req EXCEPT ![c] = outcome[c].request]
          /\ idx' = [idx EXCEPT ![c] = @ + 1]
          /\ pc' = [pc EXCEPT ![c] = "request"]
          /\ outcome' = [outcome EXCEPT ![c] = NoVal]
          /\ events' = [events EXCEPT ![c] =
                Append(@, Ev("settled", idx[c], outcome[c].request, "async"))]
       \/ /\ requestFailed(c, idx[c])
          /\ events' = [events EXCEPT ![c] =
                Append(@, Ev("failed", idx[c], req[c], "async"))]
    /\ UNCHANGED <<mw, callers, recalls, manifest, GatewayClassFactory, client, context, ctxLog, token, runs, cont, stack, result>>

\* .then(finalRequest => { ... const execute = middleware.reduce(...) ...
FinalRequest(c) ==
    /\ pc[c] = "request"
    /\ idx[c] > Len(mw)
    /\ cont' = [cont EXCEPT ![c] = execute(Len(mw))]
    /\ pc' = [pc EXCEPT ![c] = "response"]
    /\ UNCHANGED <<mw, callers, recalls, manifest, GatewayClassFactory, client, context, ctxLog, token, runs, idx, req, stack, outcome, result, events>>

\* renew as a plain re-entry of invokeMiddlewares with the original Request
\* and no bound on the number of executions.
renewUnguarded(c, i, t) ==
    /\ runs' = [runs EXCEPT ![c] = @ + 1]
    /\ pc' = [pc EXCEPT ![c] = "request"]
    /\ idx' = [idx EXCEPT ![c] = 1]
    /\ req' = [req EXCEPT ![c] = initialRequest]
    /\ cont' = [cont EXCEPT ![c] = <<>>]
    /\ outcome' = [outcome EXCEPT ![c] = NoVal]

\* A renew() whose promise never settles.
renewHangs(c, i, t) ==
    /\ pc' = [pc EXCEPT ![c] = "renewing"]
    /\ UNCHANGED <<outcome, runs, idx, req, cont>>

\* A response hook calls renew. chainResponsePhase hands the hook one
\* argument, next: the hook's second parameter is undefined and calling it
\* raises a TypeError, thrown (t = "throw") or as a rejection (t = "rej").
renew(c, i, t) ==
    /\ outcome' = [outcome EXCEPT ![c] = Val(t, "TypeError", i, <<>>)]
    /\ pc' = [pc EXCEPT ![c] = "unwind"]
    /\ UNCHANGED <<runs, idx, req, cont>>

\* The arguments a response hook is called with: middleware.response(next)
responseArgs == <<"next">>

\* A response hook is entered: () => middleware.response(next)
ResponseHook(c) ==
    /\ pc[c] = "response"
    /\ cont[c] # <<>>
    /\ LET i == Head(cont[c])
       IN  \E b \in ResponseBehaviours(mw[i]) :
             CASE b \in {"default", "next", "catch", "renewAfter"} ->
                    /\ stack' = [stack EXCEPT ![c] =
                          <<[i |-> i, b |-> b, next |-> Tail(cont[c])]>> \o @]
                    /\ cont' = [cont EXCEPT ![c] = Tail(@)]
                    /\ events' = [events EXCEPT ![c] =
                          Append(@, EvArgs("response", i, finalRequest(c), b, responseArgs))]
                    /\ UNCHANGED <<pc, outcome, runs, idx, req>>
               [] b = "resolve" ->
                    /\ outcome' = [outcome EXCEPT ![c] =
                          Val("ok", "Response", i, finalRequest(c))]
                    /\ pc' = [pc EXCEPT ![c] = "unwind"]
                    /\ events' = [events EXCEPT ![c] =
                          Append(@, EvArgs("response", i, finalRequest(c), b, responseArgs))]
                    /\ UNCHANGED <<stack, cont, runs, idx, req>>
               [] b = "throw" ->
                    /\ outcome' = [outcome EXCEPT ![c] = Val("throw", "HookError", i, <<>>)]
                    /\ pc' = [pc EXCEPT ![c] = "unwind"]
                    /\ events' = [events EXCEPT ![c] =
                          Append(@, EvArgs("response", i, finalRequest(c), b, responseArgs))]
                    /\ UNCHANGED <<stack, cont, runs, idx, req>>
               [] b = "renew" ->
                    /\ renew(c, i, "throw")
                    /\ events' = [events EXCEPT ![c] =
                          @ \o <<EvArgs("response", i, finalRequest(c), b, responseArgs),
                                 EvAt("renew", i, finalRequest(c), b, <<>>)>>]
                    /\ UNCHANGED stack
    /\ UNCHANGED <<mw, callers, recalls, manifest, GatewayClassFactory, client, context, ctxLog, token, result>>

\* const callGateway = () => new GatewayClass(finalRequest, gatewayConfigs).call()
CallGateway(c) ==
    /\ pc[c] = "response"
    /\ cont[c] = <<>>
    /\ pc' = [pc EXCEPT ![c] = "gateway"]
    /\ events' = [events EXCEPT ![c] = Append(@, Ev("gateway", 0, finalRequest(c), ""))]
    /\ UNCHANGED <<mw, callers, recalls, manifest, GatewayClassFactory, client, context, ctxLog, token, runs, idx, req, cont, stack, outcome, result>>

\* new Response(request, 200, responseValue): the Response a Gateway that
\* succeeds produces for the Request it was constructed with
gatewayResponse(c) == Val("ok", "Response", 0, finalRequest(c))

\* The promise of the Gateway call settles: a Response of the Request the
\* Gateway was constructed with, or a rejection.
GatewaySettle(c) ==
    /\ pc[c] = "gateway"
    /\ \/ /\ outcome' = [outcome EXCEPT ![c] = gatewayResponse(c)]
          /\ events' = [events EXCEPT ![c] =
                Append(@, Ev("gatewayResolved", 0, gatewayResponse(c).request, ""))]
       \/ /\ outcome' = [outcome EXCEPT ![c] = Val("rej", "GatewayError", 0, <<>>)]
          /\ events' = [events EXCEPT ![c] = Append(@, Ev("gatewayRejected", 0, <<>>, ""))]
    /\ pc' = [pc EXCEPT ![c] = "unwind"]
    /\ UNCHANGED <<mw, callers, recalls, manifest, GatewayClassFactory, client, context, ctxLog, token, runs, idx, req, cont, stack, result>>

\* A rejected next() that no hook's catch handler receives.
catchesNever(f, o) == FALSE

\* next().catch(handler): the handler of the hook that awaits next() receives
\* a rejection of next(), and nothing else.
catches(f, o) == f.b = "catch" /\ o.t = "rej"

\* A further call of next() that runs the Gateway call alone.
callNextGatewayOnly(c, f) ==
    /\ cont' = [cont EXCEPT ![c] = callGateway]
    /\ pc' = [pc EXCEPT ![c] = "response"]
    /\ outcome' = [outcome EXCEPT ![c] = NoVal]
    /\ UNCHANGED <<runs, idx, req>>

\* The hook of frame f calls the next it was handed once more: the
\* continuation () => middleware.response(next) of the middleware inside it,
\* or callGateway, with the finalRequest of this stack run.
callNext(c, f) ==
    /\ cont' = [cont EXCEPT ![c] = f.next]
    /\ pc' = [pc EXCEPT ![c] = "response"]
    /\ outcome' = [outcome EXCEPT ![c] = NoVal]
    /\ UNCHANGED <<runs, idx, req>>

\* A hook that chained on next() receives a Response and calls next() again:
\* next().then(() => next())
NextAgain(c) ==
    /\ pc[c] = "unwind"
    /\ stack[c] # <<>>
    /\ recalls[c] > 0
    /\ LET f == Head(stack[c])
       IN  /\ f.b = "next"
           /\ outcome[c].t = "ok"
           /\ callNext(c, f)
           /\ events' = [events EXCEPT ![c] = Append(@, Ev("next", f.i, finalRequest(c), f.b))]
    /\ recalls' = [recalls EXCEPT ![c] = @ - 1]
    /\ UNCHANGED <<mw, callers, manifest, GatewayClassFactory, client, context, ctxLog,
                   token, stack, result>>

\* The result of next() comes back to the hook that called it, and the hook
\* returns.
Unwind(c) ==
    /\ pc[c] = "unwind"
    /\ stack[c] # <<>>
    /\ LET f == Head(stack[c])
           o == outcome[c]
       IN  /\ stack' = [stack EXCEPT ![c] = Tail(@)]
           /\ CASE catches(f, o) ->
                     /\ outcome' = [outcome EXCEPT ![c] =
                           Val("ok", "Response", f.i, finalRequest(c))]
                     /\ events' = [events EXCEPT ![c] = Append(@, Ev("caught", f.i, <<>>, f.b))]
                     /\ UNCHANGED <<pc, runs, idx, req, cont, token>>
                [] f.b = "renewAfter" /\ o.t = "ok" ->
                     /\ token' = 1
                     /\ renew(c, f.i, "rej")
                     /\ events' = [events EXCEPT ![c] = Append(@, EvAt("renew", f.i, o.request, f.b, <<>>))]
                [] OTHER ->
                     UNCHANGED <<outcome, events, pc, runs, idx, req, cont, token>>
    /\ UNCHANGED <<mw, callers, recalls, manifest, GatewayClassFactory, client, context, ctxLog, result>>

\* resolve() called without the response.
settleUndefined(o) ==
    IF o.t = "ok" THEN Val("ok", "undefined", 0, <<>>) ELSE [o EXCEPT !.t = "rej"]

\* A failure that came out of the chain resolves the call: .catch(resolve)
settleSwallow(o) == [o EXCEPT !.t = "ok"]

\* How the promise of the generated method settles on the value o that
\* came out of the chain:
\* execute().then(response => resolve(response)) ... .catch(reject)
settle(o) == IF o.t = "ok" THEN o ELSE [o EXCEPT !.t = "rej"]

Settle(c) ==
    /\ pc[c] = "unwind"
    /\ stack[c] = <<>>
    /\ result' = [result EXCEPT ![c] = settle(outcome[c])]
    /\ pc' = [pc EXCEPT ![c] = "done"]
    /\ UNCHANGED <<mw, callers, recalls, manifest, GatewayClassFactory, client, context, ctxLog, token, runs, idx, req, cont, stack, outcome, events>>

Calling(c) ==
        \/ Invoke(c)
        \/ RequestHook(c)
        \/ RequestSettle(c)
        \/ FinalRequest(c)
        \/ ResponseHook(c)
        \/ CallGateway(c)
        \/ GatewaySettle(c)
        \/ Unwind(c)
        \/ Settle(c)

Next ==
    \/ Forge
    \/ \E c \in Calls : Calling(c)

\* export const setContext = (context) => { configs.context = assign(...) }
SetContext(p) ==
    /\ Len(ctxLog) < MaxSetContext
    /\ context' = assign(context, p)
    /\ ctxLog' = Append(ctxLog, p)
    /\ UNCHANGED <<mw, callers, recalls, manifest, GatewayClassFactory, client, token, pc,
                   runs, idx, req, cont, stack, outcome, result, events>>

\* The calls of the generated methods, and setContext called between their
\* callbacks.
NextCtx ==
    \/ Next
    \/ \E p \in Partials : SetContext(p)

\* The calls of the generated methods with hooks that call next() again.
NextRecall ==
    \/ Next
    \/ \E c \in Calls : NextAgain(c)

Spec == Init /\ [][Next]_vars
SpecConc == InitConc /\ [][Next]_vars
SpecCtx == InitCtx /\ [][NextCtx]_vars
SpecBuild == InitBuild /\ [][Next]_vars
SpecNext == InitNext /\ [][NextRecall]_vars

\* A callback of call c that is due runs: the promise reactions are run by
\* the event loop, and every hook and every Gateway call settles.
Progress(c) ==
    \/ RequestHook(c)
    \/ RequestSettle(c)
    \/ FinalRequest(c)
    \/ ResponseHook(c)
    \/ CallGateway(c)
    \/ GatewaySettle(c)
    \/ Unwind(c)
    \/ Settle(c)

SpecLive == InitLive /\ [][NextRecall]_vars /\ \A c \in Calls : WF_vars(Progress(c))

\* ---------------------------------------------------------------- observations
Done(c) == pc[c] = "done"
Resolved(c) == result[c].t = "ok"
Rejected(c) == result[c].t = "rej"
EventsOf(c, e) == SelectSeq(events[c], LAMBDA x : x.e = e)
Count(c, e) == Len(EventsOf(c, e))
\* The number of entries e among the first k entries of call c's record.
CountUpTo(c, e, k) == Cardinality({j \in 1..k : events[c][j].e = e})

\* The failure the loop guard is documented to raise: infinite loop detected
\* (middleware stack invoked n times).
LoopError(n) == Val("rej", "InfiniteLoop", n, <<>>)

\* ---------------------------------------------------------------- C1
\* C1: for one external call, renewals included, the number of full
\* middleware-stack runs started never exceeds
\* maxMiddlewareStackExecutionAllowed + 1, whatever the response hooks do
\* with renew().
C1_RunsBounded ==
    \A c \in Calls : runs[c] <= maxMiddlewareStackExecutionAllowed + 1

\* A response hook called renew() and the call has settled.
C1_Witness ==
    \E c \in Calls : Done(c) /\ Count(c, "renew") > 0 /\ runs[c] >= 1

\* ---------------------------------------------------------------- C2
\* The response hook of call c returned renew() on each of its first 4
\* executions.
RenewsFirst4(c) ==
    \A k \in 1..Len(events[c]) :
        (events[c][k].e = "response" /\ CountUpTo(c, "response", k) <= 4)
            => events[c][k].b = "renew"

\* C2: with maxMiddlewareStackExecutionAllowed = 2 and a single response hook
\* that calls renew() on each of its first 4 executions, the call rejects
\* with the infinite-loop failure reporting 3 invocations, and the Gateway is
\* never called.
C2_LoopGuardRejects ==
    \A c \in Calls :
        (/\ Len(mw) = 1 /\ mw[1].response /\ ~mw[1].request
         /\ Done(c) /\ RenewsFirst4(c))
            => /\ result[c] = LoopError(maxMiddlewareStackExecutionAllowed + 1)
               /\ Count(c, "gateway") = 0

\* ---------------------------------------------------------------- C3
\* C3: when a response hook calls renew() exactly once after changing state
\* that a request hook reads, the pipeline is run again from the request
\* phase with the original Request, the renewed run's finalized Request
\* reflects the changed state, and the call resolves with the renewed run's
\* Response.
C3_RenewRerunsPipeline ==
    \A c \in Calls :
        (/\ Done(c)
         /\ Count(c, "renew") = 1
         /\ EventsOf(c, "renew")[1].b = "renewAfter"
         /\ \E i \in 1..Len(mw) : mw[i].request)
            => /\ Resolved(c)
               /\ runs[c] = 2
               /\ result[c].request # <<>>
               /\ \A k \in 1..Len(result[c].request) : result[c].request[k].token = 1

\* ---------------------------------------------------------------- C4
\* Middleware are numbered 1..N here, m0..mN-1 in the program.
\* The indices of the response hooks of call c, in the order they were
\* entered.
ResponseOrder(c) ==
    [k \in 1..Count(c, "response") |-> EventsOf(c, "response")[k].i]

\* Every middleware has a response hook, and each hook entered so far
\* recorded its index and returned next().
AllRecordThenNext(c) ==
    /\ \A i \in 1..Len(mw) : mw[i].response
    /\ \A k \in 1..Len(events[c]) :
          events[c][k].e = "response" => events[c][k].b = "next"

\* The Gateway is called only inside all the response hooks.
GatewayInnermost(c) ==
    \A k \in 1..Len(events[c]) :
        events[c][k].e = "gateway" => CountUpTo(c, "response", k) = Len(mw)

\* C4 as stated: the hooks are entered in declared order, the first
\* declared middleware outermost.
C4_DeclaredOrder ==
    \A c \in Calls :
        AllRecordThenNext(c) =>
            /\ \A k \in 1..Count(c, "response") : ResponseOrder(c)[k] = k
            /\ GatewayInnermost(c)

\* C4 (amended): when every middleware has a response hook that records its
\* index before calling next(), the recorded order is N-1, ..., 1, 0: the
\* hooks are entered in reverse declared order, the last declared middleware
\* is the outermost wrapper, and middleware 0 wraps the Gateway call.
C4_ReverseDeclaredOrder ==
    \A c \in Calls :
        AllRecordThenNext(c) =>
            /\ \A k \in 1..Count(c, "response") :
                  ResponseOrder(c)[k] = Len(mw) - k + 1
            /\ GatewayInnermost(c)
            /\ (Done(c) /\ Count(c, "failed") = 0) => Count(c, "response") = Len(mw)

\* Two or more recording hooks were all entered and the call resolved.
C4_Witness ==
    \E c \in Calls :
        /\ Len(mw) >= 2
        /\ AllRecordThenNext(c)
        /\ Count(c, "response") = Len(mw)
        /\ Resolved(c)

\* ---------------------------------------------------------------- C5
\* The request-phase entries of call c's record.
RequestTrace(c) ==
    SelectSeq(events[c], LAMBDA x : x.e \in {"request", "settled", "failed"})

\* C5: the request hooks run one at a time in declared order with no
\* overlap: hook i starts only after the result of hook i-1 has settled, it
\* receives exactly the Request hook i-1 returned (hook 0 the initial
\* Request), whether a hook returns a Request or a promise of one.
C5_RequestPhaseSequential ==
    \A c \in Calls :
        LET q == RequestTrace(c)
        IN  \A k \in 1..Len(q) :
              /\ (q[k].e = "request") <=> (k % 2 = 1)
              /\ q[k].i = (k + 1) \div 2
              /\ (q[k].e = "request" /\ k = 1) => q[k].r = initialRequest
              /\ (q[k].e = "request" /\ k > 1) =>
                    (q[k - 1].e = "settled" /\ q[k].r = q[k - 1].r)

\* The second request hook was called with the Request the first returned,
\* and the promise it returned is still pending.
C5_Witness ==
    \E c \in Calls :
        /\ pc[c] = "awaitRequest"
        /\ idx[c] = 2
        /\ mw[1].request
        /\ Len(RequestTrace(c)) = 3
        /\ RequestTrace(c)[3].r = <<[mw |-> 1, token |-> 0]>>

\* ---------------------------------------------------------------- C6
\* C6: within one stack run no response hook and no Gateway call starts
\* before every request hook has completed; if request hook i throws or
\* rejects, no later request hook runs, no response hook runs, the Gateway
\* is not called, and the call rejects.
C6_RequestBeforeResponse ==
    \A c \in Calls :
        \A k \in 1..Len(events[c]) :
            LET e == events[c][k]
            IN  /\ e.e \in {"response", "gateway"} =>
                      /\ CountUpTo(c, "request", k) = Len(mw)
                      /\ CountUpTo(c, "settled", k) = Len(mw)
                      /\ CountUpTo(c, "failed", k) = 0
                /\ e.e = "failed" =>
                      /\ k = Len(events[c])
                      /\ pc[c] \in {"unwind", "done"}
                      /\ Done(c) => result[c] = Val("rej", "HookError", e.i, <<>>)

\* The first of two request hooks failed and the call is rejected.
C6_Witness ==
    \E c \in Calls :
        /\ Len(mw) = 2
        /\ mw[2].request /\ mw[2].response
        /\ Count(c, "failed") = 1
        /\ EventsOf(c, "failed")[1].i = 1
        /\ Rejected(c)

\* ---------------------------------------------------------------- C7
NoResponseHooks == \A i \in 1..Len(mw) : ~mw[i].response

\* C7: when no middleware defines a response hook (middleware defining
\* neither hook included), the Gateway is called exactly once per external
\* call and the call resolves with exactly the Response the Gateway produced.
\* The request hooks return and the Gateway produces a Response: failures are
\* the subject of C6 and C9.
C7_PassThrough ==
    \A c \in Calls :
        NoResponseHooks =>
            /\ Count(c, "gateway") <= 1
            /\ (Done(c) /\ Count(c, "failed") = 0) => Count(c, "gateway") = 1
            /\ (Done(c) /\ Count(c, "gatewayResolved") = 1) =>
                  result[c] = Val("ok", "Response", 0, EventsOf(c, "gateway")[1].r)
            /\ Resolved(c) => Count(c, "gatewayResolved") = 1

\* A list of a middleware with a request hook only and a middleware with
\* neither hook; the call resolved.
C7_Witness ==
    \E c \in Calls :
        /\ Len(mw) = 2
        /\ NoResponseHooks
        /\ \E i, j \in 1..2 : mw[i].request /\ ~mw[j].request
        /\ Resolved(c)
        /\ result[c].request # <<>>

\* ---------------------------------------------------------------- C8
\* The k-th entry of call c's record is a response hook that resolves a value
\* of its own without calling next() or renew().
ShortCircuit(c, k) ==
    events[c][k].e = "response" /\ events[c][k].b = "resolve"

\* Every response hook entered before the k-th entry returns what next()
\* gives it.
WrappersPassThrough(c, k) ==
    \A j \in 1..(k - 1) :
        events[c][j].e = "response" => events[c][j].b \in {"next", "default"}

\* The response hooks of call c that middleware define themselves.
HooksRun(c) ==
    {events[c][j].i : j \in {j \in 1..Len(events[c]) :
        events[c][j].e = "response" /\ mw[events[c][j].i].response}}

\* C8 as stated: no response hook of a later-declared middleware runs.
C8_NoLaterHookRuns ==
    \A c \in Calls : \A k \in 1..Len(events[c]) :
        ShortCircuit(c, k) =>
            /\ Count(c, "gateway") = 0
            /\ \A i \in HooksRun(c) : i <= events[c][k].i
            /\ (Done(c) /\ WrappersPassThrough(c, k)) =>
                  result[c] = Val("ok", "Response", events[c][k].i, finalRequest(c))

\* C8 (amended): if a response hook resolves a value without ever calling
\* next() or renew(), the Gateway is never constructed or called, no response
\* hook of an earlier-declared middleware runs (the later-declared ones wrap
\* it and have been entered before it), and the call resolves with the value
\* that hook produced when its wrappers return the result of next().
C8_NoEarlierHookRuns ==
    \A c \in Calls : \A k \in 1..Len(events[c]) :
        ShortCircuit(c, k) =>
            /\ Count(c, "gateway") = 0
            /\ \A i \in HooksRun(c) : i >= events[c][k].i
            /\ (Done(c) /\ WrappersPassThrough(c, k)) =>
                  result[c] = Val("ok", "Response", events[c][k].i, finalRequest(c))

\* The later-declared of two response hooks resolved its own value and the
\* call resolved with it.
C8_Witness ==
    \E c \in Calls :
        /\ Len(mw) = 2
        /\ mw[1].response /\ mw[2].response
        /\ Count(c, "response") = 1
        /\ ShortCircuit(c, Len(events[c]))
        /\ Resolved(c)
        /\ result[c].by = 2

\* ---------------------------------------------------------------- C9
\* The failure in flight after the first k entries of call c's record: the
\* last one raised by a request hook, a response hook, renew or the Gateway
\* that no response hook has caught.
RECURSIVE Failure(_, _)
Failure(c, k) ==
    IF k = 0 THEN NoVal
    ELSE LET e == events[c][k]
         IN  CASE e.e = "failed" -> Val("rej", "HookError", e.i, <<>>)
               [] e.e = "response" /\ e.b = "throw" -> Val("rej", "HookError", e.i, <<>>)
               [] e.e = "renew" -> Val("rej", "TypeError", e.i, <<>>)
               [] e.e = "gatewayRejected" -> Val("rej", "GatewayError", 0, <<>>)
               [] e.e = "caught" -> NoVal
               [] OTHER -> Failure(c, k - 1)

\* C9: if a request hook, a response hook or the Gateway call throws or
\* rejects and no wrapping response hook catches it, the promise of the
\* generated method rejects with that failure; the executor never resolves
\* the call in that case.
C9_FailurePropagates ==
    \A c \in Calls :
        Done(c) =>
            LET f == Failure(c, Len(events[c]))
            IN  /\ f # NoVal => result[c] = f
                /\ Resolved(c) => f = NoVal

\* A rejection of the Gateway call went through two response hooks and
\* rejected the call.
C9_Witness ==
    \E c \in Calls :
        /\ Len(mw) = 2
        /\ mw[1].response /\ mw[2].response
        /\ Count(c, "gatewayRejected") = 1
        /\ Rejected(c)
        /\ result[c].v = "GatewayError"

RECURSIVE LastSettled(_, _)
LastSettled(c, k) ==
    IF k = 0 THEN initialRequest
    ELSE IF events[c][k].e = "settled" THEN events[c][k].r
    ELSE LastSettled(c, k - 1)

\* The request hooks that middleware define themselves.
RequestHooks == {i \in 1..Len(mw) : mw[i].request}

\* C11: in every stack run the Request handed to the Gateway is exactly the
\* Request the last request hook returned, a Response the Gateway produces
\* references that Request, and the changes of synchronous and asynchronous
\* request hooks are visible through response.request() of the resolved
\* Response.
C11_GatewayGetsFinalRequest ==
    \A c \in Calls :
        /\ \A k \in 1..Len(events[c]) :
              /\ events[c][k].e = "gateway" => events[c][k].r = LastSettled(c, k)
              /\ events[c][k].e = "gatewayResolved" => events[c][k].r = LastSettled(c, k)
        /\ (Resolved(c) /\ result[c].by = 0) =>
              /\ result[c].request = LastSettled(c, Len(events[c]))
              /\ {result[c].request[j].mw : j \in 1..Len(result[c].request)} = RequestHooks
              /\ Len(result[c].request) = Cardinality(RequestHooks)

\* A synchronous and an asynchronous request hook both changed the Request
\* and the call resolved with the Gateway's Response.
C11_Witness ==
    \E c \in Calls :
        /\ Resolved(c) /\ result[c].by = 0
        /\ Len(result[c].request) = 2
        /\ \E j, k \in 1..Len(events[c]) :
              /\ events[c][j].e = "settled" /\ events[c][j].b = "sync"
              /\ events[c][k].e = "settled" /\ events[c][k].b = "async"

\* ---------------------------------------------------------------- C12
\* C12: every response hook of a stack run is invoked with two function
\* arguments, next and renew, and all response hooks of the run receive the
\* same renew.
C12_NextAndRenewPassed ==
    \A c \in Calls : \A k \in 1..Len(events[c]) :
        events[c][k].e = "response" => events[c][k].a = <<"next", "renew">>

\* ---------------------------------------------------------------- C13
\* The context after the first n setContext calls: for each key the value of
\* the last call that gave the key, none when no call gave it.
MergedContext(n) ==
    [k \in CtxKeys |->
        LET writers == {j \in 1..n : k \in DOMAIN ctxLog[j]}
        IN  IF writers = {} THEN "none"
            ELSE ctxLog[CHOOSE j \in writers : \A j2 \in writers : j2 <= j][k]]

\* Every stack run of call c handed its middleware factories the context
\* merged from the setContext calls made before the run started.
RunsReceiveCurrentContext(c) ==
    \A k \in 1..Len(events[c]) :
        events[c][k].e = "invoke" =>
            events[c][k].a = <<MergedContext(events[c][k].at)>>

\* C13: the middleware factories of a stack run receive the process-wide
\* context as it is when the run starts, on every client and for every later
\* call, and a setContext made while a call is in flight is observed by a
\* later renewal of that call.
C13_ContextObserved ==
    \A c \in Calls :
        /\ RunsReceiveCurrentContext(c)
        /\ \A k \in 1..Len(events[c]) :
              (/\ events[c][k].e = "renew"
               /\ events[c][k].at > events[c][1].at
               /\ Done(c))
                  => \E j \in (k + 1)..Len(events[c]) :
                        /\ events[c][j].e = "invoke"
                        /\ events[c][j].at >= events[c][k].at

\* ---------------------------------------------------------------- C14
Faulty == manifest # "valid" \/ GatewayClassFactory # "returnsClass"

AlwaysRenews(c) ==
    \A k \in 1..Len(events[c]) :
        events[c][k].e = "response" => events[c][k].b = "renew"

\* The position of the entry of call c's record at which its last stack run
\* started.
LastRun(c) ==
    CHOOSE k \in 1..Len(events[c]) :
        /\ events[c][k].e = "invoke"
        /\ \A j \in (k + 1)..Len(events[c]) : events[c][j].e # "invoke"

\* C15: the execution counter is incremented before each full stack run, the
\* first included; the run whose new count exceeds
\* maxMiddlewareStackExecutionAllowed + 1 is rejected at once with the
\* loop-guard failure carrying that count, and no request hook, response hook
\* or Gateway call executes during that run.
C15_GuardedRunRejected ==
    \A c \in Calls :
        /\ runs[c] = Count(c, "invoke")
        /\ (/\ Len(mw) = 1 /\ mw[1].response /\ ~mw[1].request
            /\ Done(c) /\ Count(c, "response") > 0 /\ AlwaysRenews(c))
               => /\ runs[c] = maxMiddlewareStackExecutionAllowed + 2
                  /\ result[c] = LoopError(maxMiddlewareStackExecutionAllowed + 2)
                  /\ \A k \in (LastRun(c) + 1)..Len(events[c]) :
                        events[c][k].e \notin {"request", "response", "gateway"}

\* ---------------------------------------------------------------- C16
\* The response hook of call c returned renew() on its first two executions
\* and next() on its third.
RenewsTwiceThenNext(c) ==
    \A k \in 1..Len(events[c]) :
        events[c][k].e = "response"
            => events[c][k].b =
                  (IF CountUpTo(c, "response", k) <= 2 THEN "renew" ELSE "next")

\* C16: with maxMiddlewareStackExecutionAllowed = 2, a call whose response
\* hook calls renew() on its first two runs and next() on the third makes
\* three full stack runs, calls the Gateway on the third, and resolves.
C16_TwoRenewalsAllowed ==
    \A c \in Calls :
        (/\ Len(mw) = 1 /\ mw[1].response /\ ~mw[1].request
         /\ Done(c) /\ Count(c, "response") > 0 /\ RenewsTwiceThenNext(c))
            => /\ runs[c] = 3
               /\ Count(c, "response") = 3
               /\ Count(c, "gateway") = 1
               /\ Resolved(c)
               /\ result[c].v = "Response"

\* ---------------------------------------------------------------- C18
\* The positions in call c's record of the response hooks that attached a
\* catch handler to next().
Catchers(c) ==
    {k \in 1..Len(events[c]) : events[c][k].e = "response" /\ events[c][k].b = "catch"}

Max(S) == CHOOSE x \in S : \A y \in S : y <= x

\* C18: a rejection of the Gateway call travels outward through the response
\* hooks that called next(), innermost first: with no hook catching it the
\* call rejects with the Gateway's error; otherwise the innermost hook with a
\* catch handler is the one that receives it, and when the hooks around that
\* hook pass on what next() gave them the call resolves with the Response
\* that hook returned.
C18_GatewayRejectionTravelsOutward ==
    \A c \in Calls :
        (Done(c) /\ Count(c, "gatewayRejected") = 1)
            => IF Catchers(c) = {}
               THEN /\ result[c] = Val("rej", "GatewayError", 0, <<>>)
                    /\ Count(c, "caught") = 0
               ELSE LET k == Max(Catchers(c))
                        i == events[c][k].i
                    IN  /\ Count(c, "caught") >= 1
                        /\ EventsOf(c, "caught")[1].i = i
                        /\ (\A j \in 1..(k - 1) :
                               events[c][j].e = "response"
                                   => events[c][j].b \in {"next", "default", "catch"})
                              => result[c] = Val("ok", "Response", i, finalRequest(c))

\* The Gateway rejected, the innermost response hook passed the rejection on
\* and the hook around it caught it: the call resolved.
C18_Witness ==
    \E c \in Calls :
        /\ Done(c) /\ Count(c, "gatewayRejected") = 1
        /\ Len(mw) = 2
        /\ \E k \in 1..(Len(events[c]) - 1) :
              /\ events[c][k].e = "response" /\ events[c][k].b = "catch"
              /\ events[c][k + 1].e = "response" /\ events[c][k + 1].b = "next"
        /\ Resolved(c)

\* ---------------------------------------------------------------- C19
\* The number of calls of next() the response hook of middleware i made
\* during call c: one each time it was entered and went on to next(), and
\* the further ones.
NextCalls(c, i) ==
    Cardinality({k \in 1..Len(events[c]) :
        /\ events[c][k].i = i
        /\ \/ events[c][k].e = "next"
           \/ /\ events[c][k].e = "response"
              /\ events[c][k].b \in {"default", "next", "catch", "renewAfter"}})

\* The number of times the response hook of middleware j (the Gateway call
\* for j = 0) was entered during call c.
Entered(c, j) ==
    IF j = 0
    THEN Count(c, "gateway")
    ELSE Cardinality({k \in 1..Len(events[c]) :
             events[c][k].e = "response" /\ events[c][k].i = j})

\* Whatever the continuation, a further call of next() starts no stack run,
\* re-runs no request hook, and every Gateway call is made with the same
\* finalized Request.
RecallKeepsRun(c) ==
    /\ runs[c] = 1
    /\ Count(c, "invoke") = 1
    /\ \A i \in 1..Len(mw) :
          Cardinality({k \in 1..Len(events[c]) :
              events[c][k].e = "request" /\ events[c][k].i = i}) <= 1
    /\ \A k \in 1..Len(events[c]) :
          events[c][k].e = "gateway" => events[c][k].r = finalRequest(c)

\* C19 as stated: a response hook that calls next() k times within one stack
\* run makes the later-declared response hooks and the Gateway call run k
\* times, each Gateway call with the same finalized Request, the execution
\* counter unchanged and no request hook re-run.
C19_LaterDeclaredContinuationReruns ==
    \A c \in Calls :
        (Done(c) /\ Count(c, "next") > 0) =>
            /\ RecallKeepsRun(c)
            /\ \A i \in 1..Len(mw) :
                  NextCalls(c, i) = Entered(c, IF i = Len(mw) THEN 0 ELSE i + 1)

\* C19, amended: the continuation a response hook re-runs with each call of
\* next() is the response hook of the middleware declared just before it
\* (which in turn calls the ones before it), or the Gateway call for the
\* first declared middleware; each call of next() enters it once, at once.
C19_NextRerunsInnerContinuation ==
    \A c \in Calls :
        /\ Done(c) =>
              /\ RecallKeepsRun(c)
              /\ \A i \in 1..Len(mw) : NextCalls(c, i) = Entered(c, i - 1)
        /\ \A k \in 1..(Len(events[c]) - 1) :
              events[c][k].e = "next"
                  => IF events[c][k].i = 1
                     THEN events[c][k + 1].e = "gateway"
                     ELSE /\ events[c][k + 1].e = "response"
                          /\ events[c][k + 1].i = events[c][k].i - 1

\* The response hook of the second of two middleware called next() twice:
\* the first middleware's hook ran twice and the Gateway was called twice.
C19_Witness ==
    \E c \in Calls :
        /\ Done(c)
        /\ Len(mw) = 2
        /\ NextCalls(c, 2) = 2
        /\ Entered(c, 2) = 1
        /\ Entered(c, 1) = 2
        /\ Count(c, "gateway") = 2

\* ---------------------------------------------------------------- C20
\* C20: when every hook and every Gateway call settles and the hooks call
\* next() finitely often, every call of a generated method that was made
\* eventually resolves or rejects, also when a response hook calls renew()
\* on every run: no call stays pending forever.
C20_EveryCallSettles ==
    \A c \in Calls :
        /\ (pc[c] # "idle") ~> Done(c)
        /\ [](Done(c) => (Resolved(c) \/ Rejected(c)))

\* A call whose response hook returned renew() whenever it ran has settled.
C20_Witness ==
    \E c \in Calls :
        /\ Done(c)
        /\ Count(c, "response") > 0
        /\ AlwaysRenews(c)
        /\ Resolved(c) \/ Rejected(c)

====
